---- MODULE Spec2Model ----
(***************************************************************************)
(* Model of the variant-backend A/B testing service (src/app.py).          *)
(*                                                                         *)
(* The two MongoDB collections are the state: db.experiments and db.events *)
(* are sequences of documents in natural (insertion) order.  A document is *)
(* a record whose DOMAIN is the set of keys it holds, so a missing key is  *)
(* a missing field of the record.  Every Flask handler is one action, and  *)
(* resp is the HTTP response of the request handled last.                  *)
(***************************************************************************)
EXTENDS Integers, Sequences, FiniteSets, TLC

VARIABLES experiments, events, nextId, resp

vars == <<experiments, events, nextId, resp>>

----------------------------------------------------------------------------
(* Bounds of the model *)

\* number of ObjectIds the experiments collection hands out
MaxIds == 2
\* number of documents the events collection holds
MaxEvents == 2
\* length of the variant sequences the selector is applied to
MaxVariants == 3

----------------------------------------------------------------------------
(* Values *)

\* hash_int % 100
Modulus == 100

\* total_traffic != 100
FullTraffic == 100

Users == {"u1", "u2"}
\* keys in the path of a request, and keys of the experiments created
Keys == {"btn_color", "banner"}
CreateKeys == {"btn_color"}
Names == {"Button colour"}
Times == {1}

\* JSON null / Python None
None == [type |-> "null", v |-> ""]

\* a JSON string
JStr(s) == [type |-> "str", v |-> s]

\* the 24 hex digits of the n-th ObjectId the collection generates
HexOf(n) ==
  CASE n = 1 -> "65f0c0de0000000000000001"
    [] n = 2 -> "65f0c0de0000000000000002"
    [] n = 3 -> "65f0c0de0000000000000003"
    [] n = 4 -> "65f0c0de0000000000000004"
    [] n = 5 -> "65f0c0de0000000000000005"
    [] n = 6 -> "65f0c0de0000000000000006"

\* bson ObjectId(s): the native reference, a value distinct from the string s
ObjectId(s) == [type |-> "ObjectId", v |-> s.v]

\* str(oid): the hex digits of a native reference, as a plain string
Str(oid) == JStr(oid.v)

\* the ObjectId insert_one assigns to the n-th inserted experiment
NewId(n) == ObjectId(JStr(HexOf(n)))

\* dict.get(key, default)
Get(doc, key, default) == IF key \in DOMAIN doc THEN doc[key] ELSE default

----------------------------------------------------------------------------
(* Helper functions *)

\* int(md5(raw_string).hexdigest(), 16) % 100 of raw_string = user_id:experiment_id,
\* tabulated for the subject ids and identifiers of the model
Md5Mod100(raw) ==
  CASE raw = <<"u1", "65f0c0de0000000000000001">> -> 8
    [] raw = <<"u1", "65f0c0de0000000000000002">> -> 77
    [] raw = <<"u1", "65f0c0de0000000000000003">> -> 97
    [] raw = <<"u1", "65f0c0de0000000000000004">> -> 49
    [] raw = <<"u1", "65f0c0de0000000000000005">> -> 8
    [] raw = <<"u1", "65f0c0de0000000000000006">> -> 41
    [] raw = <<"u2", "65f0c0de0000000000000001">> -> 63
    [] raw = <<"u2", "65f0c0de0000000000000002">> -> 85
    [] raw = <<"u2", "65f0c0de0000000000000003">> -> 31
    [] raw = <<"u2", "65f0c0de0000000000000004">> -> 67
    [] raw = <<"u2", "65f0c0de0000000000000005">> -> 16
    [] raw = <<"u2", "65f0c0de0000000000000006">> -> 21

\* raw_string pairs the subject id with the identifier's hex digits
get_bucket(user_id, experiment_id) ==
  Md5Mod100(<<user_id, experiment_id.v>>) % Modulus

\* the result of a call: a returned value, or a raised exception
Return(i, variant) == [ok |-> TRUE, index |-> i, variant |-> variant]
Raise(exc) == [ok |-> FALSE, exc |-> exc]

RECURSIVE SelectLoopInclusive(_, _, _, _)
\* SelectLoop with the comparison bucket <= threshold
SelectLoopInclusive(variants, bucket, i, cumulative_threshold) ==
  IF i > Len(variants)
  THEN Return(Len(variants), variants[Len(variants)])
  ELSE LET threshold == cumulative_threshold + variants[i].traffic_percentage
       IN  IF bucket <= threshold
           THEN Return(i, variants[i])
           ELSE SelectLoopInclusive(variants, bucket, i + 1, threshold)

RECURSIVE SelectLoopFirstFallback(_, _, _, _)
\* SelectLoop with the fallback experiment['variants'][0]
SelectLoopFirstFallback(variants, bucket, i, cumulative_threshold) ==
  IF i > Len(variants)
  THEN Return(1, variants[1])
  ELSE LET threshold == cumulative_threshold + variants[i].traffic_percentage
       IN  IF bucket < threshold
           THEN Return(i, variants[i])
           ELSE SelectLoopFirstFallback(variants, bucket, i + 1, threshold)

RECURSIVE SelectLoop(_, _, _, _)
\* the for loop of select_variant from position i on, with the running threshold
SelectLoop(variants, bucket, i, cumulative_threshold) ==
  IF i > Len(variants)
  THEN IF Len(variants) = 0
       THEN Raise("IndexError")
       ELSE Return(Len(variants), variants[Len(variants)])
  ELSE IF "traffic_percentage" \notin DOMAIN variants[i]
       THEN Raise("KeyError")
       ELSE LET threshold == cumulative_threshold + variants[i].traffic_percentage
            IN  IF bucket < threshold
                THEN Return(i, variants[i])
                ELSE SelectLoop(variants, bucket, i + 1, threshold)

select_variant(experiment, bucket) ==
  SelectLoop(experiment.variants, bucket, 1, 0)

RECURSIVE SumTraffic(_, _)
SumTraffic(variants, i) ==
  IF i > Len(variants) THEN 0
  ELSE Get(variants[i], "traffic_percentage", 0) + SumTraffic(variants, i + 1)

\* sum(v.get('traffic_percentage', 0) for v in data['variants'])
total_traffic(variants) == SumTraffic(variants, 1)

----------------------------------------------------------------------------
(* Documents and request payloads *)

Variant(value, pct) == [value |-> value, traffic_percentage |-> pct]

EvenSplit == <<Variant("red", 50), Variant("blue", 50)>>
\* sums to 99
ShortSplit == <<Variant("red", 60), Variant("blue", 39)>>
\* the first variant carries no traffic_percentage, which the sum reads as 0
NoPercentage == <<[value |-> "red"], Variant("blue", 100)>>

VariantLists == {<<>>, EvenSplit, ShortSplit, NoPercentage}

StatusValues == {"active", "paused", "stopped"}

\* a JSON object with no key; `not data` holds of it
EmptyObject == [k \in {} |-> None]

\* the keys of obj other than those in drop
Without(obj, drop) == [k \in (DOMAIN obj) \ drop |-> obj[k]]

\* request bodies of POST /api/experiments
CreatePayloads ==
  LET full == [name : Names, key : CreateKeys, variants : VariantLists]
  IN  full \cup {Without(d, {"variants"}) : d \in full}
           \cup {[variants |-> EvenSplit], EmptyObject}

\* request bodies of PUT /api/admin/experiments/<key>
UpdatePayloads ==
  {[status |-> s] : s \in StatusValues}
    \cup {[variants |-> v] : v \in VariantLists}
    \cup {[status |-> "paused", variants |-> v] : v \in {NoPercentage, ShortSplit}}
    \cup {EmptyObject}

\* request bodies of POST /api/track
TrackPayloads ==
  {[userId |-> JStr("u1"), experimentId |-> JStr(HexOf(1)),
    variantName |-> JStr("blue"), event |-> JStr("conversion")],
   [userId |-> JStr("u2"), experimentId |-> JStr(HexOf(2)),
    variantName |-> JStr("red"), event |-> JStr("click")],
   EmptyObject}

\* query strings of GET /api/config
ConfigArgs == {[userId |-> u] : u \in Users} \cup {EmptyObject}

\* the experiment the collection held before the service started
OldExperiment ==
  [_id |-> NewId(1), name |-> "Button colour", key |-> "btn_color",
   status |-> "active", variants |-> EvenSplit, created_at |-> 1]

\* events written by earlier versions of the service: the identifier as a
\* native reference, and the identifier under the legacy field experimentId
NativeEvent ==
  [user_id |-> JStr("u1"), experiment_id |-> NewId(1),
   variant_name |-> JStr("red"), event_name |-> JStr("exposure"),
   timestamp |-> 1]
LegacyEvent ==
  [user_id |-> JStr("u1"), experimentId |-> Str(NewId(1)),
   variant_name |-> JStr("red"), event_name |-> JStr("conversion"),
   timestamp |-> 1]

OldEventLogs == {<<>>, <<NativeEvent>>, <<NativeEvent, LegacyEvent>>}

----------------------------------------------------------------------------
(* Collection operations *)

\* coll without the documents at the positions in drop
RECURSIVE Remove(_, _, _)
Remove(coll, drop, i) ==
  IF i > Len(coll) THEN <<>>
  ELSE (IF i \in drop THEN <<>> ELSE <<coll[i]>>) \o Remove(coll, drop, i + 1)

Min(S) == CHOOSE x \in S : \A y \in S : x <= y

\* find_one({"key": key}): position of the first document with that key, 0 if none
FindOneByKey(key) ==
  LET hits == {i \in 1..Len(experiments) : experiments[i].key = key}
  IN  IF hits = {} THEN 0 ELSE Min(hits)

\* MatchesSummary without the native-reference form
MatchesSummaryStringOnly(event, exp_id_str) ==
  "experiment_id" \in DOMAIN event /\ event.experiment_id = exp_id_str

\* {"experiment_id": exp_id_str} or {"experiment_id": ObjectId(exp_id_str)}
MatchesSummary(event, exp_id_str) ==
  \/ ("experiment_id" \in DOMAIN event /\ event.experiment_id = exp_id_str)
  \/ ("experiment_id" \in DOMAIN event /\ event.experiment_id = ObjectId(exp_id_str))

\* MatchesReset without the legacy field experimentId
MatchesResetNoLegacy(event, exp_id_str) ==
  \/ ("experiment_id" \in DOMAIN event /\ event.experiment_id = exp_id_str)
  \/ ("experiment_id" \in DOMAIN event /\ event.experiment_id = ObjectId(exp_id_str))

\* MatchesReset with the empty filter of delete_many({})
MatchesResetEverything(event, exp_id_str) == TRUE

\* the $or of delete_many in reset_experiment_stats
MatchesReset(event, exp_id_str) ==
  \/ ("experiment_id" \in DOMAIN event /\ event.experiment_id = exp_id_str)
  \/ ("experiment_id" \in DOMAIN event /\ event.experiment_id = ObjectId(exp_id_str))
  \/ ("experimentId" \in DOMAIN event /\ event.experimentId = exp_id_str)

\* the $group stage: one document per distinct variant_name, with the two sums
GroupByVariant(matched) ==
  LET names == {matched[i].variant_name : i \in 1..Len(matched)}
      Count(name, event_name) ==
        Cardinality({i \in 1..Len(matched) :
                       /\ matched[i].variant_name = name
                       /\ matched[i].event_name = JStr(event_name)})
  IN  {[_id |-> name,
        exposures |-> Count(name, "exposure"),
        conversions |-> Count(name, "conversion")] : name \in names}

----------------------------------------------------------------------------
(* The state of the service *)

NoResponse == [op |-> "none", code |-> 0, body |-> <<>>]

Reply(op, code, body) == [op |-> op, code |-> code, body |-> body]

Init ==
  /\ experiments = <<OldExperiment>>
  /\ events \in OldEventLogs
  /\ nextId = 2
  /\ resp = NoResponse

----------------------------------------------------------------------------
(* Handlers *)

\* POST /api/experiments
create_experiment(data, now) ==
  /\ nextId <= MaxIds
  /\ IF DOMAIN data = {} \/ "variants" \notin DOMAIN data
     THEN /\ resp' = Reply("create_experiment", 400, "Invalid payload")
          /\ UNCHANGED <<experiments, events, nextId>>
     ELSE IF total_traffic(data.variants) # FullTraffic
     THEN /\ resp' = Reply("create_experiment", 400, "Traffic percentage must sum to 100")
          /\ UNCHANGED <<experiments, events, nextId>>
     ELSE IF "name" \notin DOMAIN data \/ "key" \notin DOMAIN data
     THEN /\ resp' = Reply("create_experiment", 500, "KeyError")
          /\ UNCHANGED <<experiments, events, nextId>>
     ELSE LET new_experiment ==
                [_id |-> NewId(nextId), name |-> data.name, key |-> data.key,
                 status |-> "active", variants |-> data.variants,
                 created_at |-> now]
          IN  /\ experiments' = Append(experiments, new_experiment)
              /\ nextId' = nextId + 1
              /\ resp' = Reply("create_experiment", 201, Str(new_experiment._id))
              /\ UNCHANGED events

\* one element of config_list, or the exception raised on the way to it
ConfigEntry(exp, user_id) ==
  LET exp_id == Str(exp._id)
      assigned == select_variant(exp, get_bucket(user_id, exp_id))
  IN  IF ~assigned.ok THEN assigned
      ELSE IF "value" \notin DOMAIN assigned.variant THEN Raise("KeyError")
      ELSE [ok |-> TRUE,
            entry |-> [experimentId |-> exp_id, key |-> exp.key,
                       value |-> assigned.variant.value]]

\* GET /api/config
get_config(args) ==
  LET user_id == Get(args, "userId", "")
      active_experiments == SelectSeq(experiments, LAMBDA e : e.status = "active")
      built == [i \in 1..Len(active_experiments) |->
                  ConfigEntry(active_experiments[i], user_id)]
  IN  /\ resp' =
           IF user_id = ""
           THEN Reply("get_config", 400, "userId is required")
           ELSE IF \E i \in 1..Len(built) : ~built[i].ok
           THEN Reply("get_config", 500, "KeyError")
           ELSE Reply("get_config", 200, [i \in 1..Len(built) |-> built[i].entry])
      /\ UNCHANGED <<experiments, events, nextId>>

\* POST /api/track
track_event(data, now) ==
  /\ Len(events) < MaxEvents
  /\ LET event_doc ==
           [user_id |-> Get(data, "userId", None),
            experiment_id |-> Get(data, "experimentId", None),
            variant_name |-> Get(data, "variantName", None),
            event_name |-> Get(data, "event", None),
            timestamp |-> now]
     IN  events' = Append(events, event_doc)
  /\ resp' = Reply("track_event", 201, "recorded")
  /\ UNCHANGED <<experiments, nextId>>

\* GET /api/admin/summary/<experiment_key>
get_experiment_summary(experiment_key) ==
  LET found == FindOneByKey(experiment_key)
  IN  /\ resp' =
           IF found = 0
           THEN Reply("get_experiment_summary", 404, "not found")
           ELSE LET experiment == experiments[found]
                    exp_id_str == Str(experiment._id)
                    matched == SelectSeq(events,
                                 LAMBDA e : MatchesSummary(e, exp_id_str))
                    raw_events == SubSeq(matched, 1,
                                    IF Len(matched) < 5 THEN Len(matched) ELSE 5)
                IN  Reply("get_experiment_summary", 200,
                          [experiment_name |-> experiment.name,
                           experiment_id_we_searched_for |-> exp_id_str,
                           raw_events_found_count |-> Len(raw_events),
                           aggregated_variants |-> GroupByVariant(matched)])
      /\ UNCHANGED <<experiments, events, nextId>>

\* GET /api/admin/experiments; line 198 of the handler is a note, not a
\* statement, and the response is the find() of line 199
get_all_experiments ==
  /\ resp' = Reply("get_all_experiments", 200,
                   [i \in 1..Len(experiments) |->
                      [name |-> experiments[i].name, key |-> experiments[i].key,
                       status |-> experiments[i].status]])
  /\ UNCHANGED <<experiments, events, nextId>>

\* delete_experiment that also deletes the events of the experiment
delete_experiment_cascade(key) ==
  LET found == FindOneByKey(key)
  IN  /\ experiments' = IF found = 0 THEN experiments
                        ELSE Remove(experiments, {found}, 1)
      /\ events' = IF found = 0 THEN events
                   ELSE SelectSeq(events,
                          LAMBDA e : ~MatchesReset(e, Str(experiments[found]._id)))
      /\ resp' = IF found = 0
                 THEN Reply("delete_experiment", 404, "Not found")
                 ELSE Reply("delete_experiment", 200, "Deleted")
      /\ UNCHANGED nextId

\* DELETE /api/admin/experiments/<key>
delete_experiment(key) ==
  LET found == FindOneByKey(key)
  IN  /\ experiments' = IF found = 0 THEN experiments
                        ELSE Remove(experiments, {found}, 1)
      /\ resp' = IF found = 0
                 THEN Reply("delete_experiment", 404, "Not found")
                 ELSE Reply("delete_experiment", 200, "Deleted")
      /\ UNCHANGED <<events, nextId>>

\* DELETE /api/admin/stats/<experiment_key>
reset_experiment_stats(experiment_key) ==
  LET found == FindOneByKey(experiment_key)
  IN  IF found = 0
      THEN /\ resp' = Reply("reset_experiment_stats", 404, "Experiment not found")
           /\ UNCHANGED <<experiments, events, nextId>>
      ELSE LET exp_id_str == Str(experiments[found]._id)
               deleted == {i \in 1..Len(events) : MatchesReset(events[i], exp_id_str)}
           IN  /\ events' = Remove(events, deleted, 1)
               /\ resp' = Reply("reset_experiment_stats", 200, Cardinality(deleted))
               /\ UNCHANGED <<experiments, nextId>>

\* the $set of update_experiment applied to one document
SetFields(doc, update_fields) ==
  [k \in (DOMAIN doc) \cup (DOMAIN update_fields) |->
     IF k \in DOMAIN update_fields THEN update_fields[k] ELSE doc[k]]

\* update_experiment without the validation of the sum
update_experiment_unchecked(key, data) ==
  LET update_fields ==
        [k \in (DOMAIN data) \cap {"status", "variants"} |-> data[k]]
      found == FindOneByKey(key)
  IN  IF DOMAIN update_fields = {}
      THEN /\ resp' = Reply("update_experiment", 400, "No valid fields to update")
           /\ UNCHANGED <<experiments, events, nextId>>
      ELSE IF found = 0
      THEN /\ resp' = Reply("update_experiment", 404, "Experiment not found")
           /\ UNCHANGED <<experiments, events, nextId>>
      ELSE /\ experiments' =
                [experiments EXCEPT ![found] = SetFields(@, update_fields)]
           /\ resp' = Reply("update_experiment", 200, "Updated successfully")
           /\ UNCHANGED <<events, nextId>>

\* update_experiment with update_many in place of update_one
update_experiment_many(key, data) ==
  LET update_fields ==
        [k \in (DOMAIN data) \cap {"status", "variants"} |-> data[k]]
      found == FindOneByKey(key)
  IN  IF "variants" \in DOMAIN data /\ total_traffic(data.variants) # FullTraffic
      THEN /\ resp' = Reply("update_experiment", 400, "Traffic must sum to 100")
           /\ UNCHANGED <<experiments, events, nextId>>
      ELSE IF DOMAIN update_fields = {}
      THEN /\ resp' = Reply("update_experiment", 400, "No valid fields to update")
           /\ UNCHANGED <<experiments, events, nextId>>
      ELSE IF found = 0
      THEN /\ resp' = Reply("update_experiment", 404, "Experiment not found")
           /\ UNCHANGED <<experiments, events, nextId>>
      ELSE /\ experiments' =
                [i \in 1..Len(experiments) |->
                   IF experiments[i].key = key
                   THEN SetFields(experiments[i], update_fields)
                   ELSE experiments[i]]
           /\ resp' = Reply("update_experiment", 200, "Updated successfully")
           /\ UNCHANGED <<events, nextId>>

\* PUT /api/admin/experiments/<key>
update_experiment(key, data) ==
  LET update_fields ==
        [k \in (DOMAIN data) \cap {"status", "variants"} |-> data[k]]
      found == FindOneByKey(key)
  IN  IF "variants" \in DOMAIN data /\ total_traffic(data.variants) # FullTraffic
      THEN /\ resp' = Reply("update_experiment", 400, "Traffic must sum to 100")
           /\ UNCHANGED <<experiments, events, nextId>>
      ELSE IF DOMAIN update_fields = {}
      THEN /\ resp' = Reply("update_experiment", 400, "No valid fields to update")
           /\ UNCHANGED <<experiments, events, nextId>>
      ELSE IF found = 0
      THEN /\ resp' = Reply("update_experiment", 404, "Experiment not found")
           /\ UNCHANGED <<experiments, events, nextId>>
      ELSE /\ experiments' =
                [experiments EXCEPT ![found] = SetFields(@, update_fields)]
           /\ resp' = Reply("update_experiment", 200, "Updated successfully")
           /\ UNCHANGED <<events, nextId>>

----------------------------------------------------------------------------
(* The service: any request, at any time *)

CreateExperiment == \E data \in CreatePayloads, now \in Times : create_experiment(data, now)
GetConfig == \E args \in ConfigArgs : get_config(args)
TrackEvent == \E data \in TrackPayloads, now \in Times : track_event(data, now)
GetExperimentSummary == \E key \in Keys : get_experiment_summary(key)
GetAllExperiments == get_all_experiments
DeleteExperiment == \E key \in Keys : delete_experiment(key)
ResetExperimentStats == \E key \in Keys : reset_experiment_stats(key)
UpdateExperiment == \E key \in Keys, data \in UpdatePayloads : update_experiment(key, data)

Next ==
  \/ CreateExperiment
  \/ GetConfig
  \/ TrackEvent
  \/ GetExperimentSummary
  \/ GetAllExperiments
  \/ DeleteExperiment
  \/ ResetExperimentStats
  \/ UpdateExperiment

Spec == Init /\ [][Next]_vars

\* cleanup.py: a script run by hand against the database, outside the service;
\* it is no request of the service and no step of Next
Cleanup ==
  /\ experiments' = <<>>
  /\ events' = <<>>
  /\ UNCHANGED <<nextId, resp>>

----------------------------------------------------------------------------
(* The selector on its own: one variant sequence, one call *)

\* the traffic shares the variant sequences are built from
Shares == {0, 1, 33, 34, 50, 66, 99, 100}

Buckets == 0..(Modulus - 1)

VariantSeqs ==
  UNION {[1..n -> {Variant("red", pct) : pct \in Shares}] : n \in 1..MaxVariants}

InitSelect ==
  /\ experiments \in {<<[OldExperiment EXCEPT !.variants = vs]>> : vs \in VariantSeqs}
  /\ events = <<>>
  /\ nextId = 2
  /\ resp = NoResponse

\* one call of select_variant
SelectOne ==
  /\ resp = NoResponse
  /\ \E bucket \in Buckets :
       resp' = Reply("select_variant", 0,
                     [bucket |-> bucket,
                      result |-> select_variant(experiments[1], bucket)])
  /\ UNCHANGED <<experiments, events, nextId>>

\* select_variant called once for every bucket
SelectAll ==
  /\ resp = NoResponse
  /\ resp' = Reply("select_variant_all", 0,
                   [bucket \in Buckets |-> select_variant(experiments[1], bucket)])
  /\ UNCHANGED <<experiments, events, nextId>>

NextSelect ==
  \/ SelectOne
  \/ SelectAll

SpecSelect == InitSelect /\ [][NextSelect]_vars

----------------------------------------------------------------------------
(* Properties of the selector *)

\* the sum of the first i traffic percentages
RECURSIVE RunningSum(_, _)
RunningSum(variants, i) ==
  IF i = 0 THEN 0 ELSE RunningSum(variants, i - 1) + variants[i].traffic_percentage

\* a variant sequence of the data model: shares in 0..100 that sum to 100
IsSplit(variants) ==
  /\ Len(variants) >= 1
  /\ \A i \in 1..Len(variants) : variants[i].traffic_percentage \in 0..100
  /\ RunningSum(variants, Len(variants)) = 100

\* C1: for a variant sequence whose shares lie in 0..100 and sum to 100,
\* select_variant returns one variant of the sequence for every bucket 0..99,
\* and the number of buckets mapped to a variant is its traffic_percentage.
C1_BucketsMatchShares ==
  LET variants == experiments[1].variants
  IN  (resp.op = "select_variant_all" /\ IsSplit(variants)) =>
        /\ \A b \in Buckets :
             /\ resp.body[b].ok
             /\ resp.body[b].index \in 1..Len(variants)
             /\ resp.body[b].variant = variants[resp.body[b].index]
        /\ \A i \in 1..Len(variants) :
             Cardinality({b \in Buckets : resp.body[b].index = i})
               = variants[i].traffic_percentage

\* a three-way split 33/33/34 has been selected from, for every bucket
C1_Witness ==
  LET variants == experiments[1].variants
  IN  /\ resp.op = "select_variant_all"
      /\ IsSplit(variants)
      /\ Len(variants) = 3
      /\ \A i \in 1..3 : variants[i].traffic_percentage >= 33
      /\ \A i \in 1..3 : \E b \in Buckets : resp.body[b].index = i

\* C2: select_variant returns the first variant whose running sum of
\* traffic_percentage is greater than the bucket, and the last variant,
\* without an error, when no running sum is.
C2_FirstAboveBucket ==
  resp.op = "select_variant" =>
    LET variants == experiments[1].variants
        bucket == resp.body.bucket
        above == {i \in 1..Len(variants) : bucket < RunningSum(variants, i)}
        expected == IF above = {} THEN Len(variants) ELSE Min(above)
    IN  /\ resp.body.result.ok
        /\ resp.body.result.index = expected
        /\ resp.body.result.variant = variants[expected]

\* the fallback has been taken on a sequence of more than one variant
C2_Witness ==
  LET variants == experiments[1].variants
  IN  /\ resp.op = "select_variant"
      /\ Len(variants) >= 2
      /\ RunningSum(variants, Len(variants)) <= resp.body.bucket
      /\ resp.body.result.ok
      /\ resp.body.result.index = Len(variants)

----------------------------------------------------------------------------
(* Properties of the service *)

\* the sum of the traffic_percentage values the variants carry
RECURSIVE ShareSum(_)
ShareSum(variants) ==
  IF variants = <<>> THEN 0
  ELSE (IF "traffic_percentage" \in DOMAIN Head(variants)
        THEN Head(variants).traffic_percentage ELSE 0) + ShareSum(Tail(variants))

\* positions of the experiments stored under key
Holders(coll, key) == {i \in 1..Len(coll) : coll[i].key = key}

\* the event refers to the identifier id as a string or as a native reference
RefersByExperimentId(event, id) ==
  /\ "experiment_id" \in DOMAIN event
  /\ event.experiment_id \in {id, Str(id)}

\* the event refers to id in any stored representation
Refers(event, id) ==
  \/ RefersByExperimentId(event, id)
  \/ ("experimentId" \in DOMAIN event /\ event.experimentId = Str(id))

\* log begins with old, and continues with at most `more` further events
Extends(log, old, more) ==
  /\ Len(old) <= Len(log)
  /\ Len(log) <= Len(old) + more
  /\ SubSeq(log, 1, Len(old)) = old

AllStoredSumTo100 ==
  \A i \in 1..Len(experiments) : ShareSum(experiments[i].variants) = 100

\* the request supplies variants that do not sum to 100
BadVariants(data) ==
  "variants" \in DOMAIN data /\ ShareSum(data.variants) # 100

BadCreatePayloads == {d \in CreatePayloads : BadVariants(d)}
BadUpdatePayloads == {d \in UpdatePayloads : BadVariants(d)}

RejectedPersistsNothing ==
  /\ resp'.op = "create_experiment" =>
       \A data \in BadCreatePayloads, now \in Times :
         create_experiment(data, now) =>
           (resp'.code = 400 /\ experiments' = experiments)
  /\ resp'.op = "update_experiment" =>
       \A data \in BadUpdatePayloads, key \in Keys :
         update_experiment(key, data) =>
           (resp'.code = 400 /\ experiments' = experiments)

\* C3: the variants of every stored experiment sum to 100, and a create or
\* update request whose variants do not sum to 100 is rejected and stores
\* nothing.
C3_StoredVariantsSumTo100 ==
  /\ []AllStoredSumTo100
  /\ [][RejectedPersistsNothing]_vars

\* the variants of a stored experiment have been replaced by an update
C3_Witness ==
  /\ resp.op = "update_experiment"
  /\ resp.code = 200
  /\ Len(experiments) >= 1
  /\ experiments[1]._id = NewId(1)
  /\ experiments[1].variants # OldExperiment.variants

\* the entries get_config is to return to user_id
ConfigAsClaimed(body, user_id) ==
  LET active == SelectSeq(experiments, LAMBDA e : e.status = "active")
  IN  /\ Len(body) = Len(active)
      /\ \A i \in 1..Len(active) :
           LET selected == select_variant(active[i],
                             get_bucket(user_id, Str(active[i]._id)))
           IN  /\ body[i].experimentId = Str(active[i]._id)
               /\ body[i].key = active[i].key
               /\ selected.ok
               /\ body[i].value = selected.variant.value

\* C4: for a non-empty subject id, get_config returns one entry for each
\* active experiment and none for any other, each with the experiment's
\* identifier, key and the value of the selected variant, and changes
\* no experiment and no event.
C4_ConfigListsActiveExperiments ==
  [][resp'.op = "get_config" => \A args \in ConfigArgs :
       (get_config(args) /\ Get(args, "userId", "") # "")
       => /\ resp'.code = 200
          /\ ConfigAsClaimed(resp'.body, args.userId)
          /\ experiments' = experiments
          /\ events' = events]_vars

\* the groups the summary of the experiment with identifier id is to hold
SummaryAsClaimed(groups, id) ==
  LET matching == {i \in 1..Len(events) : RefersByExperimentId(events[i], id)}
      Number(name, event_name) ==
        Cardinality({i \in matching : /\ events[i].variant_name = name
                                      /\ events[i].event_name = JStr(event_name)})
  IN  /\ {g._id : g \in groups} = {events[i].variant_name : i \in matching}
      /\ Cardinality(groups) = Cardinality({g._id : g \in groups})
      /\ \A g \in groups :
           /\ g.exposures = Number(g._id, "exposure")
           /\ g.conversions = Number(g._id, "conversion")

\* C5: the summary of an existing key groups exactly the events whose
\* experiment_id is the experiment's identifier, as a string or as a native
\* reference, by variant_name, and counts the exposures and the conversions
\* of each group; other event names add to neither. An unknown key is not found.
C5_SummaryCountsPerVariant ==
  [][resp'.op = "get_experiment_summary" => \A key \in Keys :
       get_experiment_summary(key) =>
         IF Holders(experiments, key) = {}
         THEN resp'.code = 404
         ELSE /\ resp'.code = 200
              /\ SummaryAsClaimed(resp'.body.aggregated_variants,
                                  experiments[Min(Holders(experiments, key))]._id)]_vars

\* a summary with two groups, one of them counted from a native reference
C5_Witness ==
  /\ resp.op = "get_experiment_summary"
  /\ resp.code = 200
  /\ Cardinality(resp.body.aggregated_variants) = 2
  /\ \E i \in 1..Len(events) :
       /\ "experiment_id" \in DOMAIN events[i]
       /\ events[i].experiment_id.type = "ObjectId"
       /\ Str(events[i].experiment_id) = resp.body.experiment_id_we_searched_for

\* C6: no request other than the stats reset removes or changes a stored
\* event: deleting an experiment leaves the events as they are, and track
\* appends exactly one event, also when it repeats an earlier one.
C6_EventsAppendOnly ==
  [][/\ resp'.op # "reset_experiment_stats" => Extends(events', events, 1)
     /\ resp'.op = "delete_experiment" =>
          \A key \in Keys : delete_experiment(key) => events' = events
     /\ resp'.op = "track_event" => \A data \in TrackPayloads, now \in Times :
          track_event(data, now) =>
            /\ Len(events') = Len(events) + 1
            /\ SubSeq(events', 1, Len(events)) = events
            /\ events'[Len(events')].experiment_id = Get(data, "experimentId", None)
            /\ events'[Len(events')].event_name = Get(data, "event", None)]_vars

\* an experiment has been deleted while two identical events refer to it
C6_Witness ==
  /\ resp.op = "delete_experiment"
  /\ resp.code = 200
  /\ Len(events) = 2
  /\ events[1] = events[2]
  /\ \E n \in 1..(nextId - 1) :
       /\ Refers(events[1], NewId(n))
       /\ \A i \in 1..Len(experiments) : experiments[i]._id # NewId(n)

\* C7: a stats reset of an existing key removes every event that refers to
\* the experiment's identifier in any representation, and no other event,
\* leaves the experiments unchanged and reports the number of events removed.
C7_ResetRemovesAllForms ==
  [][resp'.op = "reset_experiment_stats" => \A key \in Keys :
       (reset_experiment_stats(key) /\ Holders(experiments, key) # {}) =>
         LET id == experiments[Min(Holders(experiments, key))]._id
         IN  /\ events' = SelectSeq(events, LAMBDA e : ~Refers(e, id))
             /\ experiments' = experiments
             /\ resp'.code = 200
             /\ resp'.body = Len(events) - Len(events')]_vars

\* a reset has removed a native-reference event and a legacy event
C7_Witness ==
  /\ resp.op = "reset_experiment_stats"
  /\ resp.code = 200
  /\ resp.body = 2
  /\ events = <<>>
  /\ nextId = 2

\* C8: a successful update of key changes, on the one experiment it finds,
\* only the fields the request supplies, and changes no other experiment and
\* no event; an update whose variants do not sum to 100 changes nothing.
C8_UpdateChangesSuppliedFieldsOnly ==
  [][resp'.op = "update_experiment" =>
       /\ events' = events
       /\ Len(experiments') = Len(experiments)
       /\ \A data \in BadUpdatePayloads, key \in Keys :
            update_experiment(key, data) => experiments' = experiments
       /\ resp'.code = 200 =>
            \A key \in Keys, data \in UpdatePayloads :
              update_experiment(key, data) =>
                /\ Holders(experiments, key) # {}
                /\ \A i \in 1..Len(experiments) :
                     LET old == experiments[i]
                         new == experiments'[i]
                     IN  IF i = Min(Holders(experiments, key))
                         THEN /\ DOMAIN new = DOMAIN old
                              /\ new._id = old._id
                              /\ new.name = old.name
                              /\ new.key = old.key
                              /\ new.created_at = old.created_at
                              /\ new.status = Get(data, "status", old.status)
                              /\ new.variants = Get(data, "variants", old.variants)
                         ELSE new = old]_vars

\* an update has been applied while two experiments share a key and differ
C8_Witness ==
  /\ resp.op = "update_experiment"
  /\ resp.code = 200
  /\ Len(experiments) = 2
  /\ experiments[1].key = experiments[2].key
  /\ experiments[1].status # experiments[2].status
  /\ experiments[1].variants # experiments[2].variants

\* C9: the status of every stored experiment is one of active, paused,
\* archived, and a newly created experiment is active.
C9_StatusInDomain ==
  /\ \A i \in 1..Len(experiments) :
       experiments[i].status \in {"active", "paused", "archived"}
  /\ (resp.op = "create_experiment" /\ resp.code = 201) =>
       experiments[Len(experiments)].status = "active"

\* identifiers handed out so far that no stored experiment carries
DeletedIds ==
  {NewId(n) : n \in 1..(nextId - 1)} \ {experiments[i]._id : i \in 1..Len(experiments)}

\* C10: once an experiment is deleted, no request removes the events that
\* refer to its identifier: a reset of a key no experiment has is not found
\* and deletes nothing, and an experiment created later has a fresh
\* identifier, so a reset of its key removes only events that refer to that.
C10_EventsOfDeletedExperimentStay ==
  [][/\ \A id \in DeletedIds :
          /\ id \in DeletedIds'
          /\ Extends(SelectSeq(events', LAMBDA e : Refers(e, id)),
                     SelectSeq(events, LAMBDA e : Refers(e, id)), 1)
     /\ resp'.op = "reset_experiment_stats" => \A key \in Keys :
          reset_experiment_stats(key) =>
            IF Holders(experiments, key) = {}
            THEN resp'.code = 404 /\ events' = events
            ELSE events' = SelectSeq(events, LAMBDA e :
                   ~Refers(e, experiments[Min(Holders(experiments, key))]._id))
     /\ resp'.code = 201 => \A data \in CreatePayloads, now \in Times :
          (create_experiment(data, now) /\ resp'.code = 201) =>
            /\ experiments'[Len(experiments')]._id \notin DeletedIds
            /\ \A i \in 1..Len(experiments) :
                 experiments'[Len(experiments')]._id # experiments[i]._id]_vars

\* the old experiment is deleted, a new one holds its key, a reset of that key
\* has succeeded, and an event that refers to the old identifier is still stored
C10_Witness ==
  /\ resp.op = "reset_experiment_stats"
  /\ resp.code = 200
  /\ Len(experiments) = 1
  /\ experiments[1]._id = NewId(2)
  /\ experiments[1].key = OldExperiment.key
  /\ \E i \in 1..Len(events) : Refers(events[i], NewId(1))

====
